---------------------------- MODULE Spec2Model ----------------------------
(***************************************************************************)
(* Session lifecycle manager of src/helper/addon/qr/index.js.              *)
(*                                                                         *)
(* The module-level Maps (sessions, retries, qrTimeouts, registeredFlags)  *)
(* are functions whose DOMAIN is the Map's key set.  Every call of         *)
(* createSession makes one connection (a Baileys socket `wa`) with its own *)
(* closure (sessionId, state).  JavaScript runs a handler to its next      *)
(* `await` without interruption, so every action below is one such         *)
(* run-to-completion segment: the start of a handler up to its first       *)
(* await, or the resumption of a suspended handler up to its end.          *)
(* Strings that the code parses are sequences of one-character strings.    *)
(***************************************************************************)
EXTENDS Naturals, Integers, Sequences, FiniteSets, TLC

\* ------------------------------------------------------------------ bounds
MaxEntries == 3
MaxPhoneLen == 3
MaxGroupLen == 3
MaxChatIdLen == 6
MaxConns == 2
MaxTimers == 2
MaxTasks == 1
MaxReconnects == 1
MaxDelWrites == 2

\* ------------------------------------------------------- program constants
maxRetries == 5
reconnectDelayMs == 5000

\* Session ids: "u1_a", "u1_b" and "u1_c", three sessions of owner "u1".
SessionIds ==
    { <<"u", "1", "_", "a">>, <<"u", "1", "_", "b">>, <<"u", "1", "_", "a", "b">> }
TwoIds == { <<"u", "1", "_", "a">>, <<"u", "1", "_", "b">> }
OneId == { <<"u", "1", "_", "a">> }
ConnIds == 1..MaxConns
TimerIds == 1..MaxTimers
NoConn == 0

\* DisconnectReason values the close branch distinguishes; "other" stands for
\* every other status code.
CloseReasons == {"loggedOut", "restartRequired", "other"}

\* ----------------------------------------------------------------- strings
Digits == {"0", "1", "2", "3", "4", "5", "6", "7", "8", "9"}
IsDigit(ch) == ch \in Digits

\* null / undefined / "" : all falsy in the code's tests.
Null == <<>>

\* Profile ids (wa.user.id) the connection may report on open.
ProfileIds ==
    { <<"5", "5", ":", "1", "@", "s">>,
      <<"5", "5", "@", "s">>,
      <<"a", "5", "@", "s">>,
      <<"5", "5">>,
      Null }

OneProfile == { <<"5", "5", ":", "1", "@", "s">> }

SetMax(S) == CHOOSE m \in S : \A n \in S : n <= m

\* str.match(/^(\d+)(?=:|\@)/): the longest n >= 1 such that the first n
\* characters are digits and character n+1 is ":" or "@" (greedy \d+ with
\* backtracking, then the lookahead); 0 when there is no match.
RegexMatchLen(str) ==
    LET cands == { n \in 1..(Len(str) - 1) :
                      /\ \A i \in 1..n : IsDigit(str[i])
                      /\ str[n + 1] \in {":", "@"} }
    IN  IF cands = {} THEN 0 ELSE SetMax(cands)

\* The same pattern without its "^" anchor: the first place where it matches.
extractPhoneNumberUnanchored(str) ==
    LET Rest(i) == SubSeq(str, i, Len(str))
        starts == { i \in 1..Len(str) : RegexMatchLen(Rest(i)) > 0 }
    IN  IF starts = {} THEN Null
        ELSE LET i == CHOOSE x \in starts : \A y \in starts : x <= y
             IN  SubSeq(str, i, i + RegexMatchLen(Rest(i)) - 1)

extractPhoneNumber(str) ==
    IF str = Null THEN Null
    ELSE LET n == RegexMatchLen(str)
         IN  IF n = 0 THEN Null ELSE SubSeq(str, 1, n)

\* str.indexOf(ch), counted from 1; 0 where JavaScript gives -1.
IndexOf(str, ch) ==
    LET at == { i \in 1..Len(str) : str[i] = ch }
    IN  IF at = {} THEN 0 ELSE CHOOSE i \in at : \A j \in at : i <= j

\* The owner (uid) part of a session id.
getBeforeUnderscore(str) ==
    LET index == IndexOf(str, "_")
    IN  IF index # 0 THEN SubSeq(str, 1, index - 1) ELSE str

\* input.split("_")[0]: the part before the first "_", the whole string
\* when it has none.
extractUidFromSessionId(input) ==
    LET index == IndexOf(input, "_")
    IN  IF index = 0 THEN input ELSE SubSeq(input, 1, index - 1)

\* str.endsWith(suffix)
EndsWith(str, suffix) ==
    /\ Len(str) >= Len(suffix)
    /\ SubSeq(str, Len(str) - Len(suffix) + 1, Len(str)) = suffix

WaSuffix ==
    <<"@", "s", ".", "w", "h", "a", "t", "s", "a", "p", "p", ".", "n", "e", "t">>
StatusBroadcast ==
    <<"s", "t", "a", "t", "u", "s", "@", "b", "r", "o", "a", "d", "c", "a", "s", "t">>

\* str.startsWith(prefix)
StartsWith(str, prefix) ==
    /\ Len(str) >= Len(prefix)
    /\ SubSeq(str, 1, Len(prefix)) = prefix

\* name.substring(3)
Substring3(name) == SubSeq(name, 4, Len(name))

MdPrefix == <<"m", "d", "_">>

\* -------------------------------------------------------------------- Maps
MapHas(m, k) == k \in DOMAIN m
MapSet(m, k, v) == [x \in (DOMAIN m) \cup {k} |-> IF x = k THEN v ELSE m[x]]
MapDelete(m, k) == [x \in (DOMAIN m) \ {k} |-> m[x]]
EmptyMap == [x \in {} |-> 0]

VARIABLES
    sessions,         \* Map sessionId -> connection (the socket object)
    retries,          \* Map sessionId -> reconnect attempts
    qrTimeouts,       \* Map sessionId -> timer handle
    registeredFlags,  \* Map sessionId -> boolean
    conns,            \* the sockets made by makeWASocket, with their closures
    timers,           \* the QR timeout timers made by setTimeout
    tasks,            \* event handlers suspended on an await
    reconnects,       \* pending reconnect setTimeouts, per session id and delay
    delWrites,        \* deleteSession calls suspended on their final query
    folders,          \* auth folders md_<id>: id -> creds.registered on disk
    db,               \* instance table: uniqueId -> [status, number, data]
    inbox,            \* chat rows and conversation files, by the id they name
    merge,            \* per sessionId, the updateDuplicateInstance call made for it
    unhandled,        \* rejected promises that nothing awaits or catches
    callResult,       \* what the last exported operation gave its caller
    sink,             \* the calls made to processMessage
    boot,             \* init(): the directory entries still to be visited
    event             \* the inbound event a message handler last ran on

vars == <<sessions, retries, qrTimeouts, registeredFlags, conns, timers,
          tasks, reconnects, delWrites, folders, db, inbox, merge, unhandled,
          callResult, sink, boot, event>>

\* What the session handlers never touch.
apiVars == <<inbox, merge, callResult, sink, boot, event>>

Idle == [pc |-> "idle"]
NoResult == [op |-> "none"]
NoEvent == [kind |-> "none"]

Delays == {0, reconnectDelayMs}

\* wa.user before the socket has opened (undefined, read as Null).
Unset == <<"?">>

\* What a createSession call is given besides the session id: isLegacy and
\* options, left out by the caller (the defaults) or passed.
CallArgs == {"default", "custom"}
DefaultArgs == "default"

FreeConn == [st |-> "free", sid |-> <<>>, registered |-> FALSE, user |-> Unset,
             args |-> DefaultArgs]
\* `cancelled` records which handler, if any, called clearTimeout on the timer
\* after its callback had started.
FreeTimer == [st |-> "free", sid |-> <<>>, conn |-> NoConn, inst |-> NoConn,
              cancelled |-> "no"]

\* A suspended handler: its kind, its socket, and the locals it holds across the
\* await (the open branch's `number` and `dataJson`).
Task(kind, c, number, data) ==
    [kind |-> kind, conn |-> c, number |-> number, data |-> data]
Plain(kind, c) == Task(kind, c, Null, Null)

Range(m) == { m[k] : k \in DOMAIN m }

\* A closed socket nothing refers to any more is garbage: its slot is reused.
Referenced(c, sess, tks, tms) ==
    \/ c \in Range(sess)
    \/ \E k \in tks : k.conn = c
    \/ \E t \in TimerIds : tms[t].st # "free" /\ (tms[t].conn = c \/ tms[t].inst = c)

Collect(cn, sess, tks, tms) ==
    [c \in ConnIds |->
        IF cn[c].st = "closed" /\ ~Referenced(c, sess, tks, tms)
        THEN FreeConn ELSE cn[c]]

\* The module as loaded: empty Maps, nothing running.
InitModule ==
    /\ sessions = EmptyMap
    /\ retries = EmptyMap
    /\ qrTimeouts = EmptyMap
    /\ registeredFlags = EmptyMap
    /\ conns = [c \in ConnIds |-> FreeConn]
    /\ timers = [t \in TimerIds |-> FreeTimer]
    /\ tasks = {}
    /\ reconnects = [s \in SessionIds |-> [d \in Delays |-> [a \in CallArgs |-> 0]]]
    /\ delWrites = [s \in SessionIds |-> 0]
    /\ merge = [s \in SessionIds |-> Idle]
    /\ unhandled = {}
    /\ callResult = NoResult
    /\ sink = {}
    /\ boot = <<>>
    /\ event = NoEvent

Init ==
    /\ InitModule
    /\ folders = EmptyMap
    /\ db = [s \in SessionIds |-> [status |-> "CREATED", number |-> Null, data |-> Null]]
    /\ inbox = [chats |-> {}, files |-> {}]

\* ------------------------------------------------------------ createSession
FreeConns == { c \in ConnIds : conns[c].st = "free" }

\* createSession up to `return "Session initiated"`: the auth folder is made by
\* useMultiFileAuthState, the socket by makeWASocket, and the registry entry is
\* set.  outcome "authFail": useMultiFileAuthState rejected; "connectFail":
\* fetchLatestBaileysVersion or makeWASocket threw (the folder exists by then).
createSession(s, args, outcome) ==
    /\ FreeConns # {}
    /\ LET c == CHOOSE x \in FreeConns : \A y \in FreeConns : x <= y
           fl == IF outcome = "authFail" \/ MapHas(folders, s)
                 THEN folders ELSE MapSet(folders, s, FALSE)
       IN  /\ folders' = fl
           /\ IF outcome = "ok"
              THEN /\ sessions' = MapSet(sessions, s, c)
                   /\ conns' = Collect(
                        [conns EXCEPT ![c] = [st |-> "alive", sid |-> s,
                                              registered |-> fl[s],
                                              args |-> args,
                                              user |-> Unset]],
                        sessions', tasks, timers)
              ELSE UNCHANGED <<sessions, conns>>
    /\ UNCHANGED <<retries, qrTimeouts, registeredFlags, timers, tasks, db>>

\* An external caller (the HTTP API) calls createSession.
ApiCreateSessionWith(s, args) ==
    /\ \E outcome \in {"ok", "authFail", "connectFail"} : createSession(s, args, outcome)
    /\ UNCHANGED <<reconnects, delWrites, unhandled, apiVars>>

\* The same, isLegacy and options left out.
ApiCreateSession(s) ==
    /\ \E outcome \in {"ok", "authFail", "connectFail"} :
          createSession(s, DefaultArgs, outcome)
    /\ UNCHANGED <<reconnects, delWrites, unhandled, apiVars>>

\* A call `createSession(...)` whose promise nobody awaits or catches: when
\* createSession rethrows, the rejection is unhandled.
UnhandledAfter(unh, outcome, where) ==
    IF outcome = "ok" THEN unh ELSE unh \cup {where}

\* What a caller of an exported operation gets: the value returned, or a
\* thrown error (a rejected promise).  `failed`: the underlying step failed.
Result(op, arg, failed, threw, value) ==
    [op |-> op, arg |-> arg, failed |-> failed, threw |-> threw, value |-> value]

\* createSession's catch logs and rethrows.
CreateResultSwallowed(s, outcome) ==
    Result("createSession", s, outcome # "ok", FALSE,
           IF outcome = "ok" THEN "Session initiated" ELSE "undefined")
CreateResult(s, outcome) ==
    Result("createSession", s, outcome # "ok", outcome # "ok",
           IF outcome = "ok" THEN "Session initiated" ELSE "error")

\* A caller that awaits createSession and sees how it ends.
CallCreateSession(s) ==
    /\ \E outcome \in {"ok", "authFail", "connectFail"} :
          /\ createSession(s, DefaultArgs, outcome)
          /\ callResult' = CreateResult(s, outcome)
    /\ UNCHANGED <<reconnects, delWrites, unhandled, inbox, merge, sink, boot, event>>

\* The reconnect setTimeout of the close branch fires: createSession again.
ReconnectFire(s, d, a) ==
    /\ reconnects[s][d][a] > 0
    /\ reconnects' = [reconnects EXCEPT ![s][d][a] = @ - 1]
    /\ \E outcome \in {"ok", "authFail", "connectFail"} :
          /\ createSession(s, a, outcome)
          /\ unhandled' = UnhandledAfter(unhandled, outcome, "reconnect")
    /\ UNCHANGED <<delWrites, apiVars>>

\* ------------------------------------------------------------ deleteSession
SessionsAfterDeleteKeep(sess, s) == sess
SessionsAfterDelete(sess, s) == MapDelete(sess, s)

RetriesAfterDelete(rt, s) == MapDelete(rt, s)

FoldersAfterDelete(fl, s) == MapDelete(fl, s)

\* deleteSession up to its `await query(...)`: the auth folder is removed, then
\* sessions.delete and retries.delete; the call stays suspended on the query.
\* It touches neither qrTimeouts, registeredFlags nor the socket.
deleteSessionSync(s) ==
    /\ delWrites[s] < MaxDelWrites
    /\ folders' = FoldersAfterDelete(folders, s)
    /\ sessions' = SessionsAfterDelete(sessions, s)
    /\ retries' = RetriesAfterDelete(retries, s)
    /\ delWrites' = [delWrites EXCEPT ![s] = @ + 1]

\* An external caller calls deleteSession.
ApiDeleteSession(s) ==
    /\ deleteSessionSync(s)
    /\ conns' = Collect(conns, sessions', tasks, timers)
    /\ UNCHANGED <<qrTimeouts, registeredFlags, timers, tasks, reconnects, db>>
    /\ UNCHANGED <<unhandled, apiVars>>

\* A deleteSession call resumes from its query and returns; a rejected query
\* is caught and logged.
DeleteSessionReturn(s, ok) ==
    /\ delWrites[s] > 0
    /\ delWrites' = [delWrites EXCEPT ![s] = @ - 1]
    /\ db' = IF ok THEN [db EXCEPT ![s].status = "INACTIVE"] ELSE db
    /\ UNCHANGED <<sessions, retries, qrTimeouts, registeredFlags, conns,
                   timers, tasks, reconnects, folders>>
    /\ UNCHANGED <<unhandled, apiVars>>

\* ------------------------------------------------------------- QR timeouts
\* clearTimeout(t): a timer that has not fired never fires; on a timer whose
\* callback has already started it does nothing (`cancelled` records the call).
TimersAfterClear(tms, t, by) ==
    IF tms[t].st = "pending" THEN [tms EXCEPT ![t] = FreeTimer]
    ELSE [tms EXCEPT ![t].cancelled = by]

\* const t = qrTimeouts.get(sessionId); if (t) { clearTimeout(t); qrTimeouts.delete(sessionId) }
TimersAfterCancel(s, by) ==
    IF MapHas(qrTimeouts, s) THEN TimersAfterClear(timers, qrTimeouts[s], by) ELSE timers

\* ------------------------------------------------------------ creds.update
CanSuspend(task) == task \notin tasks /\ Cardinality(tasks) < MaxTasks

\* Baileys has updated state.creds and emits creds.update; the handler runs up
\* to `await saveCreds()`.
CredsUpdate(c, reg) ==
    /\ conns[c].st = "alive"
    /\ CanSuspend(Plain("creds", c))
    /\ tasks' = tasks \cup {Plain("creds", c)}
    /\ conns' = [conns EXCEPT ![c].registered = @ \/ reg]
    /\ UNCHANGED <<sessions, retries, qrTimeouts, registeredFlags, timers,
                   reconnects, delWrites, folders, db>>
    /\ UNCHANGED <<unhandled, apiVars>>

\* saveCreds settled (a rejection is caught); then the registered check.
CredsUpdateResume(c, saveOk) ==
    /\ Plain("creds", c) \in tasks
    /\ tasks' = tasks \ {Plain("creds", c)}
    /\ LET s == conns[c].sid
       IN  /\ folders' = IF saveOk /\ MapHas(folders, s)
                         THEN MapSet(folders, s, conns[c].registered)
                         ELSE folders
           /\ IF conns[c].registered
              THEN /\ registeredFlags' = MapSet(registeredFlags, s, TRUE)
                   /\ timers' = TimersAfterCancel(s, "creds")
                   /\ qrTimeouts' = MapDelete(qrTimeouts, s)
              ELSE UNCHANGED <<registeredFlags, timers, qrTimeouts>>
    /\ conns' = Collect(conns, sessions, tasks', timers')
    /\ UNCHANGED <<sessions, retries, reconnects, delWrites, db>>
    /\ UNCHANGED <<unhandled, apiVars>>

\* ------------------------------------------- connection.update: open branch
\* getSession(sessionId)?.user?.id as the handler reads it.
UserIdOf(s, cn) ==
    IF MapHas(sessions, s) /\ cn[sessions[s]].user # Unset
    THEN cn[sessions[s]].user ELSE Null

\* connection === "open": retries.delete, the UPDATE's arguments are computed,
\* and the handler suspends on the query.
ConnectionOpen(c, user) ==
    /\ conns[c].st = "alive"
    /\ LET s == conns[c].sid
           cn == [conns EXCEPT ![c].user = user]
           task == Task("open", c, extractPhoneNumber(UserIdOf(s, cn)), UserIdOf(s, cn))
       IN  /\ CanSuspend(task)
           /\ tasks' = tasks \cup {task}
           /\ retries' = MapDelete(retries, s)
           /\ conns' = cn
    /\ UNCHANGED <<sessions, qrTimeouts, registeredFlags, timers, reconnects,
                   delWrites, folders, db>>
    /\ UNCHANGED <<unhandled, apiVars>>

\* The open branch with the timer and flag updates inside its try block, after
\* the query.
ConnectionOpenResumeInsideTry(task, ok) ==
    /\ task \in tasks
    /\ task.kind = "open"
    /\ tasks' = tasks \ {task}
    /\ LET s == conns[task.conn].sid
       IN  IF ok
           THEN /\ db' = [db EXCEPT ![s] = [status |-> "ACTIVE",
                                           number |-> task.number,
                                           data |-> task.data]]
                /\ timers' = TimersAfterCancel(s, "open")
                /\ qrTimeouts' = MapDelete(qrTimeouts, s)
                /\ registeredFlags' = MapSet(registeredFlags, s, TRUE)
           ELSE UNCHANGED <<db, timers, qrTimeouts, registeredFlags>>
    /\ conns' = Collect(conns, sessions, tasks', timers')
    /\ UNCHANGED <<sessions, retries, reconnects, delWrites, folders>>
    /\ UNCHANGED <<unhandled, apiVars>>

\* The ACTIVE query settled (a rejection is caught); then the QR timeout is
\* cleared and the registered flag set.
ConnectionOpenResume(task, ok) ==
    /\ task \in tasks
    /\ task.kind = "open"
    /\ tasks' = tasks \ {task}
    /\ LET s == conns[task.conn].sid
       IN  /\ db' = IF ok
                    THEN [db EXCEPT ![s] = [status |-> "ACTIVE", number |-> task.number,
                                           data |-> task.data]]
                    ELSE db
           /\ timers' = TimersAfterCancel(s, "open")
           /\ qrTimeouts' = MapDelete(qrTimeouts, s)
           /\ registeredFlags' = MapSet(registeredFlags, s, TRUE)
    /\ conns' = Collect(conns, sessions, tasks', timers')
    /\ UNCHANGED <<sessions, retries, reconnects, delWrites, folders>>
    /\ UNCHANGED <<unhandled, apiVars>>

\* ------------------------------------------ connection.update: close branch
Attempts(rt, s) == IF MapHas(rt, s) THEN rt[s] ELSE 0

\* shouldReconnect's answer and its effect on retries.
MayRetryInclusive(attempts) == attempts <= maxRetries
MayRetry(attempts) == attempts < maxRetries

RetriesAfterShouldReconnectUncounted(rt, s) == rt
RetriesAfterShouldReconnect(rt, s) ==
    IF MayRetry(Attempts(rt, s)) THEN MapSet(rt, s, Attempts(rt, s) + 1) ELSE rt

\* statusCode === DisconnectReason.loggedOut || !shouldReconnect(sessionId):
\* shouldReconnect is not called for a logged-out close.
IsTerminal(reason, rt, s) == reason = "loggedOut" \/ ~MayRetry(Attempts(rt, s))

RetriesAfterCloseEager(reason, rt, s) == RetriesAfterShouldReconnect(rt, s)
RetriesAfterClose(reason, rt, s) ==
    IF reason = "loggedOut" THEN rt ELSE RetriesAfterShouldReconnect(rt, s)

\* The reconnect timers of session id s that have not fired.
Scheduled(rc, s) ==
    rc[s][0]["default"] + rc[s][0]["custom"]
       + rc[s][reconnectDelayMs]["default"] + rc[s][reconnectDelayMs]["custom"]

WaitMsFixed(reason) == reconnectDelayMs
WaitMs(reason) == IF reason = "restartRequired" THEN 0 ELSE reconnectDelayMs

\* connection === "close": the socket is dead.  A terminal close suspends on
\* the INACTIVE query; any other schedules the reconnect.
ConnectionClose(c, reason) ==
    /\ conns[c].st = "alive"
    /\ LET s == conns[c].sid
           cn == [conns EXCEPT ![c].st = "closed"]
       IN  /\ retries' = RetriesAfterClose(reason, retries, s)
           /\ IF IsTerminal(reason, retries, s)
              THEN /\ CanSuspend(Plain("close", c))
                   /\ tasks' = tasks \cup {Plain("close", c)}
                   /\ UNCHANGED reconnects
              ELSE /\ Scheduled(reconnects, s) < MaxReconnects
                   /\ reconnects' = [reconnects EXCEPT
                                        ![s][WaitMs(reason)][conns[c].args] = @ + 1]
                   /\ UNCHANGED tasks
           /\ conns' = Collect(cn, sessions, tasks', timers)
    /\ UNCHANGED <<sessions, qrTimeouts, registeredFlags, timers, delWrites,
                   folders, db>>
    /\ UNCHANGED <<unhandled, apiVars>>

\* The INACTIVE query settled (a rejection is caught); deleteSession is called
\* (not awaited) and the handler returns.
ConnectionCloseResume(c, ok) ==
    /\ Plain("close", c) \in tasks
    /\ tasks' = tasks \ {Plain("close", c)}
    /\ LET s == conns[c].sid
       IN  /\ db' = IF ok THEN [db EXCEPT ![s].status = "INACTIVE"] ELSE db
           /\ deleteSessionSync(s)
    /\ conns' = Collect(conns, sessions', tasks', timers)
    /\ UNCHANGED <<qrTimeouts, registeredFlags, timers, reconnects>>
    /\ UNCHANGED <<unhandled, apiVars>>

\* --------------------------------------------- connection.update: qr branch
QrOutcomes == {"ok", "dbFail", "encodeFail"}

FreeTimers(tms) == { t \in TimerIds : tms[t].st = "free" }

\* A QR payload arrives; the handler suspends on toDataURL and on the query.
ConnectionQr(c) ==
    /\ conns[c].st = "alive"
    /\ CanSuspend(Plain("qr", c))
    /\ tasks' = tasks \cup {Plain("qr", c)}
    /\ UNCHANGED <<sessions, retries, qrTimeouts, registeredFlags, conns,
                   timers, reconnects, delWrites, folders, db>>
    /\ UNCHANGED <<unhandled, apiVars>>

\* toDataURL and the query settled.  "encodeFail": toDataURL rejected and the
\* outer catch ends the handler; "dbFail": the query rejected, which is caught;
\* then the previous timer is cleared and a new one armed.
ConnectionQrResume(c, outcome) ==
    /\ Plain("qr", c) \in tasks
    /\ tasks' = tasks \ {Plain("qr", c)}
    /\ LET s == conns[c].sid
           cleared == TimersAfterCancel(s, "qr")
       IN  IF outcome = "encodeFail"
           THEN UNCHANGED <<timers, qrTimeouts>>
           ELSE /\ FreeTimers(cleared) # {}
                /\ LET t == CHOOSE x \in FreeTimers(cleared) :
                                \A y \in FreeTimers(cleared) : x <= y
                   IN  /\ timers' = [cleared EXCEPT ![t] =
                            [st |-> "pending", sid |-> s, conn |-> c,
                             inst |-> NoConn, cancelled |-> "no"]]
                       /\ qrTimeouts' = MapSet(qrTimeouts, s, t)
    /\ conns' = Collect(conns, sessions, tasks', timers')
    /\ UNCHANGED <<sessions, retries, registeredFlags, reconnects, delWrites,
                   folders, db>>
    /\ UNCHANGED <<unhandled, apiVars>>

\* The timer callback starts.  Registered: the handle is dropped and nothing
\* else happens.  Otherwise, when the registry holds an instance and the
\* closure's creds are not registered, the callback suspends on
\* sessionInstance.logout(); else it only drops the handle.
NotScannedAnyCreds(t) == MapHas(sessions, timers[t].sid)
NotScanned(t) ==
    /\ MapHas(sessions, timers[t].sid)
    /\ ~conns[timers[t].conn].registered

IsRegistered(s) == MapHas(registeredFlags, s) /\ registeredFlags[s] = TRUE

QrTimeoutFire(t) ==
    /\ timers[t].st = "pending"
    /\ LET s == timers[t].sid
       IN  IF ~IsRegistered(s) /\ NotScanned(t)
           THEN /\ timers' = [timers EXCEPT ![t].st = "running",
                                            ![t].inst = sessions[s]]
                /\ UNCHANGED qrTimeouts
           ELSE /\ timers' = [timers EXCEPT ![t] = FreeTimer]
                /\ qrTimeouts' = MapDelete(qrTimeouts, s)
    /\ conns' = Collect(conns, sessions, tasks, timers')
    /\ UNCHANGED <<sessions, retries, registeredFlags, tasks, reconnects,
                   delWrites, folders, db>>
    /\ UNCHANGED <<unhandled, apiVars>>

\* logout() settled; whether it resolved (the socket is ended) or rejected,
\* the finally block calls deleteSession, then the handle is dropped.
QrTimeoutResume(t, logoutOk) ==
    /\ timers[t].st = "running"
    /\ LET s == timers[t].sid
           i == timers[t].inst
       IN  /\ deleteSessionSync(s)
           /\ qrTimeouts' = MapDelete(qrTimeouts, s)
           /\ timers' = [timers EXCEPT ![t] = FreeTimer]
           /\ conns' = Collect(
                IF logoutOk THEN [conns EXCEPT ![i].st = "closed"] ELSE conns,
                sessions', tasks, timers')
    /\ UNCHANGED <<registeredFlags, tasks, reconnects, db>>
    /\ UNCHANGED <<unhandled, apiVars>>

\* ------------------------------------------- sendMessage, getGroupData, isExists
CallOutcomes == {"ok", "fail"}

\* sendMessage(session, receiver, message): getUrlInfo, delay and
\* session.sendMessage inside one try; the catch logs and returns
\* Promise.reject(null).
SendMessageResult(c, outcome) ==
    IF outcome = "ok" THEN Result("sendMessage", c, FALSE, FALSE, "resp")
    ELSE Result("sendMessage", c, TRUE, TRUE, "null")

\* getGroupData(session, jid): the catch logs and returns Promise.reject(null).
GetGroupDataResult(c, outcome) ==
    IF outcome = "ok" THEN Result("getGroupData", c, FALSE, FALSE, "metadata")
    ELSE Result("getGroupData", c, TRUE, TRUE, "null")

\* isExists(session, jid, isGroup): groupMetadata or onWhatsApp inside one
\* try; `found`: the lookup's answer; the catch logs and returns false.
IsExistsResult(c, outcome, found) ==
    IF outcome = "ok" THEN Result("isExists", c, FALSE, FALSE, found)
    ELSE Result("isExists", c, TRUE, FALSE, FALSE)

\* A caller runs one of the three on a socket it got from getSession.
CallOperation(c) ==
    /\ conns[c].st # "free"
    /\ \E outcome \in CallOutcomes, found \in BOOLEAN :
          callResult' \in { SendMessageResult(c, outcome),
                            GetGroupDataResult(c, outcome),
                            IsExistsResult(c, outcome, found) }
    /\ UNCHANGED <<sessions, retries, qrTimeouts, registeredFlags, conns, timers,
                   tasks, reconnects, delWrites, folders, db, inbox, merge,
                   unhandled, sink, boot, event>>

\* -------------------------------------------------- updateDuplicateInstance
\* SELECT * FROM instance WHERE uid = ? AND number = ?, less the row of
\* sessionId itself.  A row's uid column is the owner part of its uniqueId; a
\* null number matches no row.
MergeRows(s, number) ==
    IF number = Null THEN {}
    ELSE { o \in SessionIds \ {s} :
             /\ getBeforeUnderscore(o) = getBeforeUnderscore(s)
             /\ db[o].number = number }

\* No updateDuplicateInstance call is in progress.
NoMerge == \A s \in SessionIds : merge[s] = Idle

\* updateDuplicateInstance({sessionId, number}) up to its SELECT.
MergeStart(s, number) ==
    /\ merge[s] = Idle
    /\ merge' = [merge EXCEPT ![s] =
                   IF getBeforeUnderscore(s) = Null THEN Idle
                   ELSE [pc |-> "select", number |-> number,
                         todo |-> {}, ins |-> Null]]
    /\ UNCHANGED <<sessions, retries, qrTimeouts, registeredFlags, conns, timers,
                   tasks, reconnects, delWrites, folders, db, inbox, unhandled,
                   callResult, sink, boot, event>>

\* The loop takes the next matching instance, if any is left, and calls
\* deleteSession(insId), which runs up to its query.
MergeLoop(s, rest) ==
    IF rest = {}
    THEN /\ merge' = [merge EXCEPT ![s] = Idle]
         /\ UNCHANGED <<sessions, retries, delWrites, folders, conns>>
    ELSE \E ins \in rest :
            /\ deleteSessionSync(ins)
            /\ merge' = [merge EXCEPT ![s].pc = "delete", ![s].ins = ins,
                                      ![s].todo = rest \ {ins}]
            /\ conns' = Collect(conns, sessions', tasks, timers)

\* The SELECT settled: a rejection is caught by the function's one try/catch
\* and ends the call; else the loop starts on the rows it returned.
MergeSelected(s, ok) ==
    /\ merge[s].pc = "select"
    /\ IF ok THEN MergeLoop(s, MergeRows(s, merge[s].number))
       ELSE /\ merge' = [merge EXCEPT ![s] = Idle]
            /\ UNCHANGED <<sessions, retries, delWrites, folders, conns>>
    /\ UNCHANGED <<qrTimeouts, registeredFlags, timers, tasks, reconnects, db,
                   inbox, unhandled, callResult, sink, boot, event>>

\* renameFilesInDirectory: a conversation file <number>_<id>.json stands in
\* `files` as its id.  Every file whose name starts with <number>_<insId> is
\* renamed to <number>_<sessionId>.json; a failing readdir or rename is
\* logged in its callback.
FilesAfterRename(files, ins, s, renameOk) ==
    LET selected == { f \in files : StartsWith(f, ins) }
    IN  IF renameOk /\ selected # {} THEN (files \ selected) \cup {s} ELSE files

\* `await deleteSession(insId)` returned (its query's rejection is caught
\* inside deleteSession); the files are renamed and the call suspends on the
\* SELECT of the chats.
MergeDeleted(s, ok, renameOk) ==
    /\ merge[s].pc = "delete"
    /\ delWrites[merge[s].ins] > 0
    /\ delWrites' = [delWrites EXCEPT ![merge[s].ins] = @ - 1]
    /\ db' = IF ok THEN [db EXCEPT ![merge[s].ins].status = "INACTIVE"] ELSE db
    /\ inbox' = [inbox EXCEPT
                   !.files = FilesAfterRename(@, merge[s].ins, s, renameOk)]
    /\ merge' = [merge EXCEPT ![s].pc = "chats"]
    /\ UNCHANGED <<sessions, retries, qrTimeouts, registeredFlags, conns, timers,
                   tasks, reconnects, folders, unhandled, callResult, sink, boot, event>>

\* chat.chat_id.replace(insId, sessionId) on a chat_id that starts with insId.
ReplaceFirst(chatId, ins, s) == s \o SubSeq(chatId, Len(ins) + 1, Len(chatId))

\* The chats selected by `chat_id LIKE '<insId>%'` get sessionId in place of
\* insId.  A chat row stands in `chats` as its chat_id, which begins with the
\* id of its session.
ChatsAfterUpdate(chats, ins, s) ==
    { IF StartsWith(ch, ins) THEN ReplaceFirst(ch, ins, s) ELSE ch : ch \in chats }

\* The chat queries settled: the chats of insId are re-pointed and the loop
\* goes on.  A rejected SELECT or UPDATE of the chats is thrown to the
\* try/catch around the whole loop, which ends the call.
MergeChats(s, chatOk) ==
    /\ merge[s].pc = "chats"
    /\ IF chatOk
       THEN /\ inbox' = [inbox EXCEPT
                           !.chats = ChatsAfterUpdate(@, merge[s].ins, s)]
            /\ \A ch \in inbox'.chats : Len(ch) <= MaxChatIdLen
            /\ MergeLoop(s, merge[s].todo)
       ELSE /\ merge' = [merge EXCEPT ![s] = Idle]
            /\ UNCHANGED <<sessions, retries, delWrites, folders, conns, inbox>>
    /\ UNCHANGED <<qrTimeouts, registeredFlags, timers, tasks, reconnects, db,
                   unhandled, callResult, sink, boot, event>>

\* ---------------------------------------- messages.update, messages.upsert
\* remoteJid of an event's message: a personal chat, a group, the status
\* channel, or undefined (Null).
Jids ==
    { <<"5">> \o WaSuffix, <<"5", "@", "g", ".", "u", "s">>, StatusBroadcast, Null }

\* message.update of a messages.update entry: absent, poll updates, or a
\* status (0 is WAMessageStatus.ERROR) that may be missing.
Updates ==
    { [present |-> FALSE, polls |-> 0, status |-> "undefined"],
      [present |-> TRUE, polls |-> 1, status |-> "3"],
      [present |-> TRUE, polls |-> 0, status |-> "undefined"],
      [present |-> TRUE, polls |-> 0, status |-> "0"],
      [present |-> TRUE, polls |-> 0, status |-> "3"] }

UpdateMessages == [remoteJid : Jids, update : Updates]
UpsertMessages == [remoteJid : Jids]

\* An event carries a batch of messages: none, one, or one followed by a
\* message `second`.
Batches(M, second) == {<<>>} \cup { <<a>> : a \in M } \cup { <<a, second>> : a \in M }

UpdateBatches ==
    Batches(UpdateMessages,
            [remoteJid |-> <<"5">> \o WaSuffix,
             update |-> [present |-> TRUE, polls |-> 0, status |-> "3"]])
UpsertBatches == Batches(UpsertMessages, [remoteJid |-> <<"5">> \o WaSuffix])

UpsertTypes == {"notify", "append"}

\* The processMessage call of either handler.
Forwarded(message, sessionId, qrType) ==
    [body |-> message, uid |-> extractUidFromSessionId(sessionId), origin |-> "qr",
     sessionId |-> sessionId, qrType |-> qrType]

\* messages.update without the test of the status channel.
ForwardsUpdateAnyTarget(sessionId, message) ==
    /\ message.update.polls = 0
    /\ message.update.present
    /\ extractUidFromSessionId(sessionId) # <<>>
    /\ message.update.status \notin {"undefined", "0"}

\* messages.update: the conditions under which the first entry is forwarded.
ForwardsUpdate(sessionId, message) ==
    /\ message.update.polls = 0
    /\ message.update.present
    /\ message.remoteJid # StatusBroadcast
    /\ extractUidFromSessionId(sessionId) # <<>>
    /\ message.update.status \notin {"undefined", "0"}

\* messages.upsert: the conditions under which the first message is forwarded.
ForwardsUpsert(sessionId, type, message) ==
    /\ message.remoteJid # StatusBroadcast
    /\ type = "notify"
    /\ EndsWith(message.remoteJid, WaSuffix)
    /\ extractUidFromSessionId(sessionId) # <<>>

\* The messages.update handler of socket c runs on batch m.  With poll
\* updates it awaits getMessage and logs the aggregate; nothing is kept.
MessagesUpdate(c, m) ==
    /\ conns[c].st = "alive"
    /\ sink' = IF m # <<>> /\ ForwardsUpdate(conns[c].sid, m[1])
               THEN sink \cup {Forwarded(m[1], conns[c].sid, "update")}
               ELSE sink
    /\ event' = [kind |-> "update", sessionId |-> conns[c].sid, messages |-> m]
    /\ UNCHANGED <<sessions, retries, qrTimeouts, registeredFlags, conns, timers,
                   tasks, reconnects, delWrites, folders, db, inbox, merge,
                   unhandled, callResult, boot>>

\* The messages.upsert handler of socket c runs on an event of the given type
\* with the batch `messages`.
MessagesUpsert(c, type, messages) ==
    /\ conns[c].st = "alive"
    /\ sink' = IF messages # <<>> /\ ForwardsUpsert(conns[c].sid, type, messages[1])
               THEN sink \cup {Forwarded(messages[1], conns[c].sid, "upsert")}
               ELSE sink
    /\ event' = [kind |-> "upsert", sessionId |-> conns[c].sid, type |-> type,
                 messages |-> messages]
    /\ UNCHANGED <<sessions, retries, qrTimeouts, registeredFlags, conns, timers,
                   tasks, reconnects, delWrites, folders, db, inbox, merge,
                   unhandled, callResult, boot>>

\* -------------------------------------------------------------- formatPhone
RECURSIVE ReplaceNonDigits(_)
\* phone.replace(/\D/g, ""): every character that is not a digit is removed.
ReplaceNonDigits(str) ==
    IF str = <<>> THEN <<>>
    ELSE (IF IsDigit(Head(str)) THEN <<Head(str)>> ELSE <<>>)
            \o ReplaceNonDigits(Tail(str))

\* formatPhone without its first line.
formatPhoneAlways(phone) == ReplaceNonDigits(phone) \o WaSuffix

formatPhone(phone) ==
    IF EndsWith(phone, WaSuffix) THEN phone
    ELSE ReplaceNonDigits(phone) \o WaSuffix

PhoneChars == {"1", "2", "+", "-", " ", "@"}

TenDigits == <<"1", "2", "3", "4", "5", "6", "7", "8", "9", "0">>

\* Arguments of formatPhone: up to MaxPhoneLen characters, followed by
\* nothing, the suffix, the suffix cut short or continued, or a group suffix;
\* and the ten-digit number.
PhoneInputs ==
    { body \o tail :
        body \in UNION { [1..n -> PhoneChars] : n \in 0..MaxPhoneLen },
        tail \in { <<>>, WaSuffix, SubSeq(WaSuffix, 1, Len(WaSuffix) - 1),
                   WaSuffix \o <<"1">>, <<"@", "g", ".", "u", "s">> } }
      \cup {TenDigits, TenDigits \o WaSuffix}

\* A caller formats a phone number.
CallFormatPhone(phone) ==
    /\ callResult' = Result("formatPhone", phone, FALSE, FALSE, formatPhone(phone))
    /\ UNCHANGED <<sessions, retries, qrTimeouts, registeredFlags, conns, timers,
                   tasks, reconnects, delWrites, folders, db, inbox, merge,
                   unhandled, sink, boot, event>>

\* The caller formats the result once more.
CallFormatPhoneAgain ==
    /\ callResult.op = "formatPhone"
    /\ callResult' = Result("formatPhone again", callResult.arg, FALSE, FALSE,
                            formatPhone(callResult.value))
    /\ UNCHANGED <<sessions, retries, qrTimeouts, registeredFlags, conns, timers,
                   tasks, reconnects, delWrites, folders, db, inbox, merge,
                   unhandled, sink, boot, event>>

\* -------------------------------------------------------------- formatGroup
GroupSuffix == <<"@", "g", ".", "u", "s">>

RECURSIVE ReplaceNonGroupChars(_)
\* group.replace(/[^\d-]/g, ""): every character that is neither a digit nor
\* "-" is removed.
ReplaceNonGroupChars(str) ==
    IF str = <<>> THEN <<>>
    ELSE (IF IsDigit(Head(str)) \/ Head(str) = "-" THEN <<Head(str)>> ELSE <<>>)
            \o ReplaceNonGroupChars(Tail(str))

\* formatGroup with formatPhone's pattern /\D/g.
formatGroupDigitsOnly(group) ==
    IF EndsWith(group, GroupSuffix) THEN group
    ELSE ReplaceNonDigits(group) \o GroupSuffix

formatGroup(group) ==
    IF EndsWith(group, GroupSuffix) THEN group
    ELSE ReplaceNonGroupChars(group) \o GroupSuffix

GroupChars == {"1", "2", "-", "+", "@"}

GroupExample == <<"1", "2", "3", "-", "4", "5", "6">>

\* Arguments of formatGroup: up to MaxGroupLen characters, followed by
\* nothing, the suffix, or the suffix cut short; and the example id.
GroupInputs ==
    { body \o tail :
        body \in UNION { [1..n -> GroupChars] : n \in 0..MaxGroupLen },
        tail \in { <<>>, GroupSuffix, SubSeq(GroupSuffix, 1, Len(GroupSuffix) - 1) } }
      \cup {GroupExample, GroupExample \o GroupSuffix}

\* A caller formats a group id.
CallFormatGroup(group) ==
    /\ callResult' = Result("formatGroup", group, FALSE, FALSE, formatGroup(group))
    /\ UNCHANGED <<sessions, retries, qrTimeouts, registeredFlags, conns, timers,
                   tasks, reconnects, delWrites, folders, db, inbox, merge,
                   unhandled, sink, boot, event>>

\* --------------------------------------------------------------------- init
\* Session ids with a folder md_<id> in the sessions directory; the last one
\* is the empty id of a folder named just "md_".
BootIds == { <<"u", "1", "_", "a">>, <<"u", "1", "_", "b">>, <<>> }

BootNames == { MdPrefix \o id : id \in BootIds } \cup { <<"u", "1", "_", "a">> }

\* A directory entry as init sees it: its name and what statSync gives.
BootEntries == [name : BootNames, kind : {"dir", "file", "statFails"}]

\* The listings readdir may give: up to MaxEntries entries, no name twice,
\* and each a directory md_<id> exactly when the auth folder of <id> exists
\* (an entry whose stat fails may be either).
Listings(flds) ==
    { items \in UNION { [1..n -> BootEntries] : n \in 0..MaxEntries } :
        /\ \A i, j \in 1..Len(items) : items[i].name = items[j].name => i = j
        /\ \A i \in 1..Len(items) :
              (items[i].kind = "dir" /\ StartsWith(items[i].name, MdPrefix))
                 => MapHas(flds, Substring3(items[i].name))
        /\ \A id \in DOMAIN flds :
              \E i \in 1..Len(items) :
                 /\ items[i].name = MdPrefix \o id
                 /\ items[i].kind \in {"dir", "statFails"} }

BootCall(sessionId) == [sessionId |-> sessionId, title |-> "Chrome", isLegacy |-> FALSE]

RECURSIVE ForEachCallsAbortOnStat(_)
\* items.forEach with the statSync failure thrown out of the loop.
ForEachCallsAbortOnStat(items) ==
    IF items = <<>> THEN <<>>
    ELSE LET name == Head(items).name
             kind == Head(items).kind
         IN  IF kind = "statFails" THEN <<>>
             ELSE IF kind # "dir" THEN ForEachCallsAbortOnStat(Tail(items))
             ELSE IF ~StartsWith(name, MdPrefix) THEN ForEachCallsAbortOnStat(Tail(items))
             ELSE <<BootCall(Substring3(name))>> \o ForEachCallsAbortOnStat(Tail(items))

RECURSIVE ForEachCalls(_)
\* items.forEach(name => ...): the createSession calls it makes, in order.
ForEachCalls(items) ==
    IF items = <<>> THEN <<>>
    ELSE LET name == Head(items).name
             kind == Head(items).kind
         IN  IF kind = "statFails" THEN ForEachCalls(Tail(items))
             ELSE IF kind # "dir" THEN ForEachCalls(Tail(items))
             ELSE IF ~StartsWith(name, MdPrefix) THEN ForEachCalls(Tail(items))
             ELSE <<BootCall(Substring3(name))>> \o ForEachCalls(Tail(items))

\* The readdir callback of init runs: on an error it logs and returns;
\* otherwise forEach starts a createSession call per selected entry.  Each
\* call is suspended on its first await when the callback returns.
InitReaddir(err, items) ==
    /\ boot = <<>>
    /\ boot' = IF err
               THEN [err |-> TRUE, items |-> <<>>, called |-> <<>>, pending |-> {}]
               ELSE [err |-> FALSE, items |-> items, called |-> ForEachCalls(items),
                     pending |-> { ForEachCalls(items)[i].sessionId :
                                     i \in 1..Len(ForEachCalls(items)) }]
    /\ UNCHANGED <<sessions, retries, qrTimeouts, registeredFlags, conns, timers,
                   tasks, reconnects, delWrites, folders, db, inbox, merge,
                   unhandled, callResult, sink, event>>

\* A createSession call started by init runs on; nothing awaits its promise.
InitCreate(s) ==
    /\ boot # <<>>
    /\ s \in boot.pending
    /\ boot' = [boot EXCEPT !.pending = @ \ {s}]
    /\ \E outcome \in {"ok", "authFail", "connectFail"} :
          /\ createSession(s, DefaultArgs, outcome)
          /\ unhandled' = UnhandledAfter(unhandled, outcome, "init")
    /\ UNCHANGED <<reconnects, delWrites, inbox, merge, callResult, sink, event>>

\* ----------------------------------------------------------- specifications
\* Every step of the program, for every session id.
Next ==
    \/ \E s \in SessionIds : ApiCreateSession(s)
    \/ \E s \in SessionIds : ApiDeleteSession(s)
    \/ \E s \in SessionIds, d \in Delays, a \in CallArgs : ReconnectFire(s, d, a)
    \/ \E s \in SessionIds, ok \in BOOLEAN : DeleteSessionReturn(s, ok)
    \/ \E c \in ConnIds, reg \in BOOLEAN : CredsUpdate(c, reg)
    \/ \E c \in ConnIds, ok \in BOOLEAN : CredsUpdateResume(c, ok)
    \/ \E c \in ConnIds, u \in ProfileIds : ConnectionOpen(c, u)
    \/ \E task \in tasks, ok \in BOOLEAN : ConnectionOpenResume(task, ok)
    \/ \E c \in ConnIds, r \in CloseReasons : ConnectionClose(c, r)
    \/ \E c \in ConnIds, ok \in BOOLEAN : ConnectionCloseResume(c, ok)
    \/ \E c \in ConnIds : ConnectionQr(c)
    \/ \E c \in ConnIds, o \in QrOutcomes : ConnectionQrResume(c, o)
    \/ \E t \in TimerIds : QrTimeoutFire(t)
    \/ \E t \in TimerIds, ok \in BOOLEAN : QrTimeoutResume(t, ok)

Spec == Init /\ [][Next]_vars

\* The handlers of one session id touch only that id's Map entries, sockets and
\* timers, so the reconnect policy and the QR timeout are each explored for one
\* session id, under every interleaving of the events that reach the state they
\* are about.

\* Reconnect policy: create, open, close, reconnect and delete.  The QR timer
\* acts on retries and the registry only through deleteSession, which
\* ApiDeleteSession calls in every state.
NextRetry ==
    \/ \E s \in OneId : ApiCreateSession(s)
    \/ \E s \in OneId : ApiDeleteSession(s)
    \/ \E s \in OneId, d \in Delays, a \in CallArgs : ReconnectFire(s, d, a)
    \/ \E s \in OneId, ok \in BOOLEAN : DeleteSessionReturn(s, ok)
    \/ \E c \in ConnIds, u \in OneProfile : ConnectionOpen(c, u)
    \/ \E task \in tasks, ok \in BOOLEAN : ConnectionOpenResume(task, ok)
    \/ \E c \in ConnIds, r \in CloseReasons : ConnectionClose(c, r)
    \/ \E c \in ConnIds, ok \in BOOLEAN : ConnectionCloseResume(c, ok)

SpecRetry == Init /\ [][NextRetry]_vars

\* QR timeout: create, credential updates, open, QR, the timer, logged-out close
\* and delete.
NextQr ==
    \/ \E s \in OneId : ApiCreateSession(s)
    \/ \E s \in OneId : ApiDeleteSession(s)
    \/ \E s \in OneId, ok \in BOOLEAN : DeleteSessionReturn(s, ok)
    \/ \E c \in ConnIds, reg \in BOOLEAN : CredsUpdate(c, reg)
    \/ \E c \in ConnIds, ok \in BOOLEAN : CredsUpdateResume(c, ok)
    \/ \E c \in ConnIds, u \in OneProfile : ConnectionOpen(c, u)
    \/ \E task \in tasks, ok \in BOOLEAN : ConnectionOpenResume(task, ok)
    \/ \E c \in ConnIds : ConnectionClose(c, "loggedOut")
    \/ \E c \in ConnIds, ok \in BOOLEAN : ConnectionCloseResume(c, ok)
    \/ \E c \in ConnIds : ConnectionQr(c)
    \/ \E c \in ConnIds, o \in QrOutcomes : ConnectionQrResume(c, o)
    \/ \E t \in TimerIds : QrTimeoutFire(t)
    \/ \E t \in TimerIds, ok \in BOOLEAN : QrTimeoutResume(t, ok)

SpecQr == Init /\ [][NextQr]_vars

\* Two sessions of one owner that open with the same profile id.
NextOpen ==
    \/ \E s \in TwoIds : ApiCreateSession(s)
    \/ \E s \in TwoIds : ApiDeleteSession(s)
    \/ \E s \in TwoIds, ok \in BOOLEAN : DeleteSessionReturn(s, ok)
    \/ \E c \in ConnIds, u \in OneProfile : ConnectionOpen(c, u)
    \/ \E task \in tasks, ok \in BOOLEAN : ConnectionOpenResume(task, ok)

SpecOpen == Init /\ [][NextOpen]_vars

\* Opening with profile data: one session id, every profile id.
NextProfile ==
    \/ \E s \in OneId : ApiCreateSession(s)
    \/ \E s \in OneId : ApiDeleteSession(s)
    \/ \E s \in OneId, ok \in BOOLEAN : DeleteSessionReturn(s, ok)
    \/ \E c \in ConnIds, u \in ProfileIds : ConnectionOpen(c, u)
    \/ \E task \in tasks, ok \in BOOLEAN : ConnectionOpenResume(task, ok)

SpecProfile == Init /\ [][NextProfile]_vars

\* The merge procedure, called for any session id on a store that already
\* holds rows (the instance table and the inbox outlive the process).
StoredRows ==
    { [status |-> "CREATED", number |-> Null, data |-> Null],
      [status |-> "ACTIVE", number |-> <<"5", "5">>,
       data |-> <<"5", "5", ":", "1", "@", "s">>] }

InitMerge ==
    /\ InitModule
    /\ folders = EmptyMap
    /\ db \in [SessionIds -> StoredRows]
    /\ \E named \in SUBSET SessionIds : inbox = [chats |-> named, files |-> named]

NextMerge ==
    \/ \E s \in TwoIds : ApiCreateSession(s)
    \/ \E s \in {<<"u", "1", "_", "a">>, <<"u", "1", "_", "a", "b">>}, n \in {Null, <<"5", "5">>} :
          NoMerge /\ MergeStart(s, n)
    \/ \E s \in SessionIds, ok \in BOOLEAN : MergeSelected(s, ok)
    \/ \E s \in SessionIds, ok \in BOOLEAN, renameOk \in BOOLEAN :
          MergeDeleted(s, ok, renameOk)
    \/ \E s \in SessionIds, chatOk \in BOOLEAN : MergeChats(s, chatOk)

SpecMerge == InitMerge /\ [][NextMerge]_vars

\* The merge procedure called for live sessions with the number their open
\* event stored, a second call starting while the first is suspended on one
\* of its awaits.
NextMergeRace ==
    \/ \E s \in TwoIds : ApiCreateSession(s)
    \/ \E c \in ConnIds, u \in OneProfile : ConnectionOpen(c, u)
    \/ \E task \in tasks, ok \in BOOLEAN : ConnectionOpenResume(task, ok)
    \/ \E s \in TwoIds :
          /\ MapHas(sessions, s)
          /\ db[s].status = "ACTIVE"
          /\ MergeStart(s, db[s].number)
    \/ \E s \in TwoIds, ok \in BOOLEAN : MergeSelected(s, ok)
    \/ \E s \in TwoIds, ok \in BOOLEAN, renameOk \in BOOLEAN :
          MergeDeleted(s, ok, renameOk)
    \/ \E s \in TwoIds, chatOk \in BOOLEAN : MergeChats(s, chatOk)

SpecMergeRace == Init /\ [][NextMergeRace]_vars

\* The exported operations as their callers see them, on sessions that are
\* created, logged out and deleted.
NextCalls ==
    \/ \E s \in TwoIds : CallCreateSession(s)
    \/ \E s \in TwoIds : ApiDeleteSession(s)
    \/ \E s \in TwoIds, ok \in BOOLEAN : DeleteSessionReturn(s, ok)
    \/ \E c \in ConnIds : ConnectionClose(c, "loggedOut")
    \/ \E c \in ConnIds, ok \in BOOLEAN : ConnectionCloseResume(c, ok)
    \/ \E c \in ConnIds : CallOperation(c)

SpecCalls == Init /\ [][NextCalls]_vars

\* The open handler among closes of every kind, reconnects, QR events and the
\* QR timer, for one session id.
NextOpenHandler ==
    \/ \E s \in OneId : ApiCreateSession(s)
    \/ \E s \in OneId, d \in Delays, a \in CallArgs : ReconnectFire(s, d, a)
    \/ \E s \in OneId, ok \in BOOLEAN : DeleteSessionReturn(s, ok)
    \/ \E c \in ConnIds, u \in OneProfile : ConnectionOpen(c, u)
    \/ \E task \in tasks, ok \in BOOLEAN : ConnectionOpenResume(task, ok)
    \/ \E c \in ConnIds, r \in CloseReasons : ConnectionClose(c, r)
    \/ \E c \in ConnIds, ok \in BOOLEAN : ConnectionCloseResume(c, ok)
    \/ \E c \in ConnIds : ConnectionQr(c)
    \/ \E c \in ConnIds, o \in QrOutcomes : ConnectionQrResume(c, o)

SpecOpenHandler == Init /\ [][NextOpenHandler]_vars

\* Session ids of the message handlers: one with an owner part, one whose
\* owner part is empty.
SinkIds == { <<"u", "1", "_", "a">>, <<"_", "b">> }

\* Inbound events on the sockets of created sessions.
NextSink ==
    \/ \E s \in SinkIds : ApiCreateSession(s)
    \/ \E c \in ConnIds, m \in UpdateBatches : MessagesUpdate(c, m)
    \/ \E c \in ConnIds, type \in UpsertTypes, m \in UpsertBatches :
          MessagesUpsert(c, type, m)

SpecSink == Init /\ [][NextSink]_vars

\* init() on a sessions directory left by earlier runs.
InitBoot ==
    /\ InitModule
    /\ folders \in UNION { [S -> BOOLEAN] : S \in SUBSET BootIds }
    /\ db = [s \in SessionIds |-> [status |-> "CREATED", number |-> Null, data |-> Null]]
    /\ inbox = [chats |-> {}, files |-> {}]

NextBoot ==
    \/ \E err \in BOOLEAN, items \in Listings(folders) : InitReaddir(err, items)
    \/ \E s \in BootIds : InitCreate(s)

SpecBoot == InitBoot /\ [][NextBoot]_vars

\* formatPhone applied to each input, and again to what it returned.
NextFormat ==
    \/ \E phone \in PhoneInputs : CallFormatPhone(phone)
    \/ CallFormatPhoneAgain

SpecFormat == Init /\ [][NextFormat]_vars

\* formatGroup applied to each input.
NextGroup == \E group \in GroupInputs : CallFormatGroup(group)

SpecGroup == Init /\ [][NextGroup]_vars

\* The QR timer among creations, deletions, credential updates and QR events
\* of one session id.
NextTimer ==
    \/ \E s \in OneId : ApiCreateSession(s)
    \/ \E s \in OneId : ApiDeleteSession(s)
    \/ \E s \in OneId, ok \in BOOLEAN : DeleteSessionReturn(s, ok)
    \/ \E c \in ConnIds, reg \in BOOLEAN : CredsUpdate(c, reg)
    \/ \E c \in ConnIds, ok \in BOOLEAN : CredsUpdateResume(c, ok)
    \/ \E c \in ConnIds : ConnectionQr(c)
    \/ \E c \in ConnIds, o \in QrOutcomes : ConnectionQrResume(c, o)
    \/ \E t \in TimerIds : QrTimeoutFire(t)
    \/ \E t \in TimerIds, ok \in BOOLEAN : QrTimeoutResume(t, ok)

SpecTimer == Init /\ [][NextTimer]_vars

\* Closes and reconnects of sessions created with and without isLegacy and
\* options.
NextReconnect ==
    \/ \E s \in OneId, a \in CallArgs : ApiCreateSessionWith(s, a)
    \/ \E s \in OneId, d \in Delays, a \in CallArgs : ReconnectFire(s, d, a)
    \/ \E s \in OneId, ok \in BOOLEAN : DeleteSessionReturn(s, ok)
    \/ \E c \in ConnIds, r \in CloseReasons : ConnectionClose(c, r)
    \/ \E c \in ConnIds, ok \in BOOLEAN : ConnectionCloseResume(c, ok)

SpecReconnect == Init /\ [][NextReconnect]_vars

TypeOK ==
    /\ DOMAIN sessions \subseteq SessionIds
    /\ \A s \in DOMAIN sessions : sessions[s] \in ConnIds /\ conns[sessions[s]].st # "free"
    /\ \A s \in DOMAIN qrTimeouts :
          timers[qrTimeouts[s]].st # "free" /\ timers[qrTimeouts[s]].sid = s
    /\ \A t \in TimerIds : timers[t].st # "free" => conns[timers[t].conn].st # "free"
    /\ \A t \in TimerIds : timers[t].st = "running" => conns[timers[t].inst].st # "free"
    /\ \A k \in tasks : conns[k.conn].st # "free"

\* ------------------------------------------------------------ reconnect policy
PendingReconnects(rc, s) == Scheduled(rc, s)

RetriesInRange == \A s \in DOMAIN retries : retries[s] \in 0..maxRetries

\* A close event that finds the counter at maxRetries does not increment it and
\* takes the terminal path; the terminal path ends in deleteSession.
CloseAtMaxDeletes ==
    /\ \A c \in ConnIds, r \in CloseReasons :
          (ConnectionClose(c, r) /\ Attempts(retries, conns[c].sid) = maxRetries)
             => /\ retries' = retries
                /\ reconnects' = reconnects
                /\ Plain("close", c) \in tasks'
    /\ \A c \in ConnIds, ok \in BOOLEAN :
          ConnectionCloseResume(c, ok)
             => /\ ~MapHas(sessions', conns[c].sid)
                /\ ~MapHas(retries', conns[c].sid)

\* C1: in every reachable state every retry counter kept in `retries` is
\* between 0 and 5; shouldReconnect increments it only below 5, and a close
\* event that arrives when it is already 5 leaves it as it is and deletes the
\* session instead.
C1_RetryCounterBounded == []RetriesInRange /\ [][CloseAtMaxDeletes]_vars

\* The counter stands at 5 and the close that found it there is on the
\* terminal path.
C1_Witness ==
    \E s \in DOMAIN retries, c \in ConnIds :
        /\ retries[s] = maxRetries
        /\ conns[c].sid = s
        /\ Plain("close", c) \in tasks

\* C4: a close with a non-logout reason that arrives while the counter is
\* n < 5 makes it n + 1 and schedules exactly one reconnect (the close at 4
\* schedules the 5th attempt); one that arrives while the counter is 5
\* schedules no reconnect, and its handler writes status INACTIVE and deletes
\* the session.
C4_CloseRetriesThenDeletes ==
    [][ /\ \A c \in ConnIds, r \in CloseReasons \ {"loggedOut"} :
             ConnectionClose(c, r)
                => LET s == conns[c].sid
                       n == Attempts(retries, s)
                   IN  IF n < maxRetries
                       THEN /\ MapHas(retries', s)
                            /\ retries'[s] = n + 1
                            /\ PendingReconnects(reconnects', s)
                                 = PendingReconnects(reconnects, s) + 1
                            /\ tasks' = tasks
                       ELSE /\ retries' = retries
                            /\ reconnects' = reconnects
                            /\ tasks' = tasks \cup {Plain("close", c)}
        /\ \A c \in ConnIds, ok \in BOOLEAN :
             ConnectionCloseResume(c, ok)
                => LET s == conns[c].sid
                   IN  /\ reconnects' = reconnects
                       /\ ok => db'[s].status = "INACTIVE"
                       /\ delWrites'[s] = delWrites[s] + 1
                       /\ ~MapHas(sessions', s)
      ]_vars

\* The close at 4 has just scheduled the 5th attempt.
C4_Witness ==
    \E s \in DOMAIN retries :
        /\ retries[s] = maxRetries
        /\ PendingReconnects(reconnects, s) = 1
        /\ tasks = {}

\* C5: a close whose reason is loggedOut is terminal whatever the counter:
\* no reconnect is scheduled, the counter is not incremented, and the handler
\* goes on to write status INACTIVE and to call deleteSession.
C5_LoggedOutIsTerminal ==
    [][ /\ \A c \in ConnIds :
             ConnectionClose(c, "loggedOut")
                => /\ retries' = retries
                   /\ reconnects' = reconnects
                   /\ tasks' = tasks \cup {Plain("close", c)}
        /\ \A c \in ConnIds :
             ConnectionCloseResume(c, TRUE)
                => /\ db'[conns[c].sid].status = "INACTIVE"
                   /\ delWrites'[conns[c].sid] = delWrites[conns[c].sid] + 1
                   /\ reconnects' = reconnects
      ]_vars

\* A terminal close is in progress while the counter is between 1 and 4: only
\* a logged-out close gets there.
C5_Witness ==
    \E s \in DOMAIN retries, c \in ConnIds :
        /\ retries[s] \in 1..(maxRetries - 1)
        /\ conns[c].sid = s
        /\ Plain("close", c) \in tasks

RECURSIVE DigitRunLen(_)
DigitRunLen(str) ==
    IF str = <<>> \/ ~IsDigit(Head(str)) THEN 0 ELSE 1 + DigitRunLen(Tail(str))

LeadingDigitRun(id) == SubSeq(id, 1, DigitRunLen(id))

\* <digits>:<device>@<domain> or <digits>@<domain>
HasJidForm(id) ==
    /\ DigitRunLen(id) > 0
    /\ DigitRunLen(id) < Len(id)
    /\ id[DigitRunLen(id) + 1] \in {":", "@"}
    /\ \E i \in 1..Len(id) : id[i] = "@"

StartsWithoutDigit(id) == id = Null \/ ~IsDigit(id[1])

NumberMatches(id, number) ==
    /\ HasJidForm(id) => number = LeadingDigitRun(id)
    /\ StartsWithoutDigit(id) => number = Null

\* Every number the open branch has computed or stored belongs to the profile
\* id it was computed from.
NumbersMatch ==
    /\ \A k \in tasks : k.kind = "open" => NumberMatches(k.data, k.number)
    /\ \A s \in SessionIds : NumberMatches(db[s].data, db[s].number)

\* The open event of the registered socket carries the profile id into the
\* UPDATE, and the UPDATE stores ACTIVE with the number computed from it.
OpenStoresNumber ==
    /\ \A c \in ConnIds, u \in ProfileIds :
          (ConnectionOpen(c, u) /\ MapHas(sessions, conns[c].sid)
                                /\ sessions[conns[c].sid] = c)
             => \E k \in tasks' \ tasks :
                   k.kind = "open" /\ k.conn = c /\ k.data = u
    /\ \A k \in tasks :
          ConnectionOpenResume(k, TRUE)
             => /\ db'[conns[k.conn].sid].status = "ACTIVE"
                /\ db'[conns[k.conn].sid].number = k.number
                /\ db'[conns[k.conn].sid].data = k.data

\* C6: when an open event is handled for a session whose profile id has the
\* form <digits>:<device>@<domain> or <digits>@<domain>, the row of that
\* session id is updated to status ACTIVE with number equal to the leading
\* digit run of the profile id; when the profile id is missing or does not
\* start with a digit, number is written as null.
C6_OpenWritesLeadingDigits == []NumbersMatch /\ [][OpenStoresNumber]_vars

\* A row is ACTIVE with the digits of a <digits>:<device>@<domain> id.
C6_Witness ==
    \E s \in SessionIds :
        /\ db[s].status = "ACTIVE"
        /\ db[s].data = <<"5", "5", ":", "1", "@", "s">>
        /\ db[s].number = <<"5", "5">>

\* ---------------------------------------------------------- open: duplicates
\* The rows updateDuplicateInstance would select for a session id and number:
\* the other instances of the same owner with the same number.
DuplicatesOf(s, number) ==
    { o \in SessionIds \ {s} :
        /\ getBeforeUnderscore(o) = getBeforeUnderscore(s)
        /\ db[o].number = number }

\* C7: when a session opens and the store already holds another session of
\* the same owner with the same resolved number, the open handler has the
\* other session deleted: when the handler returns, the registry no longer
\* holds it.
C7_OpenMergesDuplicates ==
    [][ \A k \in tasks :
          (ConnectionOpenResume(k, TRUE) /\ k.number # Null)
             => \A o \in DuplicatesOf(conns[k.conn].sid, k.number) :
                   ~MapHas(sessions', o)
      ]_vars

\* --------------------------------------------------------------- QR timeout
\* C2: once a session's QR timer has been cancelled, by a creds.update that
\* reports registered credentials or by an open event, that timer never
\* afterwards causes deleteSession to be called for the session.
C2_CancelledTimerNeverDeletes ==
    [][ \A t \in TimerIds :
          timers[t].cancelled \in {"creds", "open"}
             => ~(\E ok \in BOOLEAN : QrTimeoutResume(t, ok))
      ]_vars

\* The timer callback returns: at once, or after logout() has settled.
TimerCallbackEnds(t) ==
    \/ QrTimeoutFire(t) /\ timers'[t].st = "free"
    \/ \E ok \in BOOLEAN : QrTimeoutResume(t, ok)

\* The session that armed timer t is the one in the registry, it is the only
\* socket of its session id, and it has seen neither an open event nor
\* registered credentials.
NeverRegistered(t) ==
    LET s == timers[t].sid
        c == timers[t].conn
    IN  /\ MapHas(sessions, s)
        /\ sessions[s] = c
        /\ conns[c].st = "alive"
        /\ conns[c].user = Unset
        /\ ~conns[c].registered
        /\ \A o \in ConnIds \ {c} : conns[o].sid # s

\* C3: for every session created with createSession, also one whose id an
\* earlier, since-deleted session used: when its QR timer fires and neither
\* registered credentials nor an open event came first, the timer callback
\* removes the session from the registry and has status INACTIVE written.
C3_QrTimeoutDeletes ==
    [][ \A t \in TimerIds :
          (TimerCallbackEnds(t) /\ NeverRegistered(t))
             => /\ ~MapHas(sessions', timers[t].sid)
                /\ \/ delWrites'[timers[t].sid] > 0
                   \/ db'[timers[t].sid].status = "INACTIVE"
      ]_vars

PendingTimers(tms, s) == { t \in TimerIds : tms[t].st = "pending" /\ tms[t].sid = s }
AliveConns(cn, s) == { c \in ConnIds : cn[c].st = "alive" /\ cn[c].sid = s }

\* C9: after deleteSession(sessionId) completes, whichever path called it, no
\* QR timer remains pending for the session id and the session's connection
\* has been closed.
C9_DeleteReleasesTimerAndSocket ==
    [][ \A s \in SessionIds, ok \in BOOLEAN :
          DeleteSessionReturn(s, ok)
             => /\ PendingTimers(timers', s) = {}
                /\ AliveConns(conns', s) = {}
      ]_vars

\* C10: in every reachable state each session id has at most one QR timeout
\* timer that is scheduled and has neither fired nor been cancelled.
C10_OnePendingTimer ==
    \A s \in SessionIds : Cardinality(PendingTimers(timers, s)) <= 1

\* The QR handler of socket c has just armed a timer.
QrArms(c) ==
    /\ \E o \in QrOutcomes : ConnectionQrResume(c, o)
    /\ \E t \in TimerIds : timers'[t].st = "pending" /\ timers[t].st # "pending"

\* C11: a QR timer is pending for a session only while the session's
\* registered flag is false: the QR handler arms no timer for a session id
\* whose flag is true.  Stated for the arming step of a socket that has itself
\* neither opened nor reported registered credentials.
C11_TimerOnlyWhileUnregistered ==
    [][ \A c \in ConnIds :
          (QrArms(c) /\ conns[c].user = Unset /\ ~conns[c].registered)
             => ~IsRegistered(conns[c].sid)
      ]_vars

\* ------------------------------------------------------------------ merge
\* What a completed merge for (s, number) leaves of the matching instances:
\* out of the registry, folder removed, status INACTIVE, chats and files
\* re-pointed.
Merged(s, number) ==
    \A o \in MergeRows(s, number) :
        /\ ~MapHas(sessions, o)
        /\ ~MapHas(retries, o)
        /\ ~MapHas(folders, o)
        /\ db[o].status = "INACTIVE"
        /\ o \notin inbox.chats
        /\ o \notin inbox.files

\* C12: updateDuplicateInstance run again for the same {sessionId, number},
\* on the state its first run left and with no session created since,
\* mutates nothing: it calls no deleteSession, writes nothing to the store,
\* updates no chat record and renames no file.
C12_MergeIdempotent ==
    [][ \A s \in SessionIds :
          (MergeSelected(s, TRUE) /\ Merged(s, merge[s].number))
           => /\ merge'[s] = Idle
              /\ delWrites' = delWrites
              /\ db' = db
              /\ inbox' = inbox
      ]_vars

\* C13: when several duplicates match and the chat-record update fails for
\* one of them, the remaining ones are still processed: the loop goes on to
\* delete the next.
C13_MergeContinuesAfterChatFailure ==
    [][ \A s \in SessionIds :
          (MergeChats(s, FALSE) /\ merge[s].todo # {}) => merge'[s].pc = "delete"
      ]_vars

\* ------------------------------------------------------ exported operations
\* C14: when createSession(sessionId) returns its confirmation value the
\* registry holds, for sessionId, the connection made by this call; when the
\* credential store or the connection fails, createSession throws to its
\* caller and the registry is as it was before the call.
C14_CreateRegistersOrThrows ==
    [][ \A s \in SessionIds :
          CallCreateSession(s)
             => /\ callResult'.arg = s
                /\ callResult'.threw = callResult'.failed
                /\ IF callResult'.threw
                   THEN sessions' = sessions
                   ELSE /\ callResult'.value = "Session initiated"
                        /\ MapHas(sessions', s)
                        /\ conns[sessions'[s]].st = "free"
                        /\ conns'[sessions'[s]].st = "alive"
                        /\ conns'[sessions'[s]].sid = s
      ]_vars

\* A create call has thrown while the registry holds another session.
C14_Witness ==
    /\ callResult.op = "createSession"
    /\ callResult.threw
    /\ DOMAIN sessions # {}
    /\ ~MapHas(sessions, callResult.arg)

\* C17: sendMessage, getGroupData and isExists each hand a failure of the
\* underlying protocol call to their caller as an error, never as a normal
\* value.
C17_CallerOperationsPropagate ==
    (callResult.op \in {"sendMessage", "getGroupData", "isExists"}
        /\ callResult.failed) => callResult.threw

TargetsStatus(message) == message.remoteJid = StatusBroadcast

\* The processMessage call the claim expects for the event last handled.
Expected ==
    [body |-> event.messages[1], uid |-> getBeforeUnderscore(event.sessionId),
     origin |-> "qr", sessionId |-> event.sessionId, qrType |-> event.kind]

\* What the sink may hold: calls with the owner part of the session id,
\* origin "qr", never for the status channel, and only for the events the
\* handlers select.
SinkHoldsSelected ==
    \A r \in sink :
        /\ r.uid = getBeforeUnderscore(r.sessionId)
        /\ r.uid # <<>>
        /\ r.origin = "qr"
        /\ ~TargetsStatus(r.body)
        /\ r.qrType \in {"update", "upsert"}
        /\ r.qrType = "upsert" => EndsWith(r.body.remoteJid, WaSuffix)
        /\ r.qrType = "update" => /\ r.body.update.polls = 0
                                  /\ r.body.update.status = "3"

\* C16 as claimed: every event whose target is not the status channel is
\* forwarded with the owner id, origin "qr", the session id and the event
\* kind; events targeting the status channel are never forwarded.
C16_ForwardsAllButStatus ==
    /\ \A r \in sink : ~TargetsStatus(r.body)
    /\ (event.kind # "none" /\ event.messages # <<>>
          /\ ~TargetsStatus(event.messages[1]))
         => Expected \in sink

\* C16 as amended: a notify event whose first message is for a personal chat
\* ("...@s.whatsapp.net"), and an update event whose first entry has no poll
\* updates, a status other than 0 and a target other than the status channel,
\* is forwarded with the owner id, origin "qr", the session id and the event
\* kind, provided the owner id is not empty; nothing else reaches the sink,
\* and an event targeting the status channel never does.
C16_ForwardsSelected ==
    /\ SinkHoldsSelected
    /\ ( /\ event.kind = "update" /\ event.messages # <<>>
         /\ ~TargetsStatus(event.messages[1])
         /\ event.messages[1].update.present
         /\ event.messages[1].update.polls = 0
         /\ event.messages[1].update.status = "3"
         /\ getBeforeUnderscore(event.sessionId) # <<>> )
        => Expected \in sink
    /\ ( /\ event.kind = "upsert" /\ event.messages # <<>>
         /\ event.type = "notify"
         /\ EndsWith(event.messages[1].remoteJid, WaSuffix)
         /\ getBeforeUnderscore(event.sessionId) # <<>> )
        => Expected \in sink

\* Both handlers have forwarded an event, the last event handled was for a
\* group and was not forwarded, and a socket of the session without an owner
\* part is alive.
C16_Witness ==
    /\ \E r \in sink : r.qrType = "update" /\ r.body.remoteJid = Null
    /\ \E r \in sink : r.qrType = "upsert"
    /\ event.kind = "upsert" /\ event.type = "notify"
    /\ Len(event.messages) = 2
    /\ event.messages[1].remoteJid = <<"5", "@", "g", ".", "u", "s">>
    /\ \E c \in ConnIds : conns[c].st = "alive" /\ conns[c].sid = <<"_", "b">>

\* --------------------------------------------------- unhandled rejections
\* C18: no failure inside event-driven processing escapes as an unhandled
\* error, a failing createSession call of the reconnect timer or of the
\* bootstrap scanner included.
C18_NoUnhandledRejection == unhandled = {}

\* ------------------------------------------------------------------ init
\* An entry init is to boot: a directory whose name starts with "md_".
Boots(e) ==
    /\ e.kind = "dir"
    /\ Len(e.name) >= 3
    /\ e.name[1] = "m" /\ e.name[2] = "d" /\ e.name[3] = "_"

\* C19: init calls createSession exactly once, with isLegacy=false, for every
\* entry that is a directory named "md_..." (passing the rest of the name as
\* the session id) and for no other entry; an entry whose stat fails is
\* skipped and the remaining entries are still processed.
C19_InitBootsEachSessionOnce ==
    (boot # <<>> /\ ~boot.err) =>
        /\ \A i \in 1..Len(boot.items) :
              Boots(boot.items[i]) =>
                 Cardinality({ j \in 1..Len(boot.called) :
                                 MdPrefix \o boot.called[j].sessionId
                                    = boot.items[i].name }) = 1
        /\ \A j \in 1..Len(boot.called) :
              /\ boot.called[j].isLegacy = FALSE
              /\ \E i \in 1..Len(boot.items) :
                    /\ Boots(boot.items[i])
                    /\ boot.items[i].name = MdPrefix \o boot.called[j].sessionId

\* init has run on a listing whose first entry failed its stat and whose
\* second is a file, has booted the third, and that call has finished.
C19_Witness ==
    /\ boot # <<>>
    /\ Len(boot.items) = 3
    /\ boot.items[1].kind = "statFails"
    /\ boot.items[2].kind = "file"
    /\ Boots(boot.items[3])
    /\ Len(boot.called) = 1
    /\ boot.pending = {}
    /\ DOMAIN sessions # {}

\* ----------------------------------------------------------- formatPhone
HasWaSuffix(x) ==
    /\ Len(x) >= 15
    /\ \A i \in 1..15 : x[Len(x) - 15 + i] = WaSuffix[i]

\* What the claim says formatPhone returns for x.
FormattedPhone(x) ==
    IF HasWaSuffix(x) THEN x ELSE SelectSeq(x, IsDigit) \o WaSuffix

\* C20: formatPhone returns its input unchanged when it ends with
\* "@s.whatsapp.net" and otherwise its digits followed by "@s.whatsapp.net";
\* applying it to its own result changes nothing; and "1234567890" gives
\* "1234567890@s.whatsapp.net".
C20_FormatPhone ==
    /\ [](callResult.op = "formatPhone"
            => /\ callResult.value = FormattedPhone(callResult.arg)
               /\ callResult.arg = TenDigits
                    => callResult.value =
                         <<"1", "2", "3", "4", "5", "6", "7", "8", "9", "0", "@", "s",
                           ".", "w", "h", "a", "t", "s", "a", "p", "p", ".", "n", "e", "t">>)
    /\ [][CallFormatPhoneAgain => callResult'.value = callResult.value]_vars

\* formatPhone has been applied a second time, to the result it gave for an
\* input with characters to remove and no suffix.
C20_Witness ==
    /\ callResult.op = "formatPhone again"
    /\ callResult.arg = <<"+", "1", " ">>
    /\ callResult.value = <<"1">> \o WaSuffix

\* ----------------------------------------------------------- formatGroup
HasGroupSuffix(x) ==
    /\ Len(x) >= 5
    /\ \A i \in 1..5 : x[Len(x) - 5 + i] = GroupSuffix[i]

IsGroupChar(ch) == ch \in Digits \cup {"-"}

\* C21: formatGroup returns its input unchanged when it ends with "@g.us" and
\* otherwise the input's digits and "-" characters followed by "@g.us"; and
\* "123-456" gives "123-456@g.us".
C21_FormatGroup ==
    callResult.op = "formatGroup"
       => /\ callResult.value =
               IF HasGroupSuffix(callResult.arg) THEN callResult.arg
               ELSE SelectSeq(callResult.arg, IsGroupChar) \o GroupSuffix
          /\ callResult.arg = GroupExample
               => callResult.value =
                    <<"1", "2", "3", "-", "4", "5", "6", "@", "g", ".", "u", "s">>

\* formatGroup has been applied to an input with a "-" to keep, characters to
\* remove and no suffix.
C21_Witness ==
    /\ callResult.op = "formatGroup"
    /\ callResult.arg = <<"+", "1", "-", "@", "g", ".", "u">>
    /\ callResult.value = <<"1", "-">> \o GroupSuffix

\* ------------------------------------------------------------ QR timer body
\* The timer body did nothing but drop the handle: no logout, no deletion.
OnlyClearsHandle(t) ==
    /\ timers'[t] = FreeTimer
    /\ ~MapHas(qrTimeouts', timers[t].sid)
    /\ sessions' = sessions /\ folders' = folders /\ delWrites' = delWrites
    /\ db' = db /\ retries' = retries /\ registeredFlags' = registeredFlags
    /\ \A c \in ConnIds : conns[c].st = "alive" => conns'[c] = conns[c]

\* The timer body called logout() on the registry's socket and waits for it.
AttemptsLogout(t) ==
    /\ timers'[t].st = "running"
    /\ timers'[t].inst = sessions[timers[t].sid]
    /\ sessions' = sessions /\ delWrites' = delWrites

\* After logout() settled, deleteSession(sessionId) is called.
DeletesAfterLogout(t) ==
    /\ delWrites'[timers[t].sid] = delWrites[timers[t].sid] + 1
    /\ ~MapHas(sessions', timers[t].sid)
    /\ ~MapHas(folders', timers[t].sid)
    /\ timers'[t] = FreeTimer

\* C22 as claimed: when the timer fires with the registered flag true, the
\* body only clears the handle; with the flag false, logout is attempted and
\* deleteSession is then called whether logout succeeded or failed, in every
\* state in which the timer can fire.
C22_TimerBodyDeletesUnlessFlag ==
    [][ /\ \A t \in TimerIds :
             QrTimeoutFire(t) =>
                IF IsRegistered(timers[t].sid) THEN OnlyClearsHandle(t)
                ELSE timers'[t].st = "running"
        /\ \A t \in TimerIds, ok \in BOOLEAN :
             QrTimeoutResume(t, ok) => DeletesAfterLogout(t) ]_vars

\* C22 as amended: when the timer fires with the registered flag true, or
\* with the registry holding no socket for the session, or with the arming
\* socket's credentials registered, the body only clears the handle;
\* otherwise logout is attempted on the registry's socket and deleteSession
\* is then called whether logout succeeded or failed.
C22_TimerBodyDeletesUnscanned ==
    [][ /\ \A t \in TimerIds :
             QrTimeoutFire(t) =>
                IF \/ IsRegistered(timers[t].sid)
                   \/ timers[t].sid \notin DOMAIN sessions
                   \/ conns[timers[t].conn].registered
                THEN OnlyClearsHandle(t)
                ELSE AttemptsLogout(t)
        /\ \A t \in TimerIds, ok \in BOOLEAN :
             QrTimeoutResume(t, ok) => DeletesAfterLogout(t) ]_vars

\* A timer has fired for an unregistered session that the registry holds:
\* its body is waiting for logout() on the registry's socket.
C22_Witness ==
    \E t \in TimerIds :
        /\ timers[t].st = "running"
        /\ ~IsRegistered(timers[t].sid)
        /\ MapHas(sessions, timers[t].sid)
        /\ sessions[timers[t].sid] = timers[t].inst
        /\ conns[timers[t].inst].st = "alive"

\* -------------------------------------------------------------- reconnect
\* C23: a non-terminal close schedules exactly one reconnect, with delay 0
\* when the reason is restart-required and 5 seconds otherwise; when it fires
\* it calls createSession with the session id, isLegacy and options of the
\* closing session.
C23_ReconnectScheduledOnce ==
    [][ /\ \A c \in ConnIds, r \in CloseReasons :
             ( /\ ConnectionClose(c, r)
               /\ r # "loggedOut"
               /\ Attempts(retries, conns[c].sid) < 5 )
                => reconnects' =
                     [reconnects EXCEPT
                        ![conns[c].sid][IF r = "restartRequired" THEN 0 ELSE 5000]
                         [conns[c].args] = @ + 1]
        /\ \A s \in OneId, d \in Delays, a \in CallArgs :
             ReconnectFire(s, d, a)
                => /\ reconnects' = [reconnects EXCEPT ![s][d][a] = @ - 1]
                   /\ \/ sessions' = sessions
                      \/ /\ DOMAIN sessions' = DOMAIN sessions \cup {s}
                         /\ conns[sessions'[s]].st = "free"
                         /\ conns'[sessions'[s]].st = "alive"
                         /\ conns'[sessions'[s]].sid = s
                         /\ conns'[sessions'[s]].args = a ]_vars

\* A session created with isLegacy and options closed with restart-required:
\* its reconnect is scheduled with delay 0 and has not fired yet.
C23_Witness ==
    \E s \in OneId :
        /\ reconnects[s][0]["custom"] = 1
        /\ Scheduled(reconnects, s) = 1
        /\ MapHas(retries, s) /\ retries[s] = 2

\* ------------------------------------------------------------ creds.update
\* C24: when the handler of a credential update completes and the credentials
\* report registered, the session's registered flag is true and no QR timer
\* is pending for it, whether saveCreds succeeded or failed; when they do not
\* report registered, the flag and the QR timer are left unchanged.
C24_CredsUpdateRegisters ==
    [][ \A c \in ConnIds, ok \in BOOLEAN :
          CredsUpdateResume(c, ok)
             => IF conns[c].registered
                THEN /\ MapHas(registeredFlags', conns[c].sid)
                     /\ registeredFlags'[conns[c].sid] = TRUE
                     /\ PendingTimers(timers', conns[c].sid) = {}
                ELSE /\ registeredFlags' = registeredFlags
                     /\ timers' = timers
                     /\ qrTimeouts' = qrTimeouts ]_vars

\* ------------------------------------------------------- after deleteSession
\* Every deleteSession call for s has completed and nothing has created s
\* since: a session id is removed from the registry by deleteSession only.
DeleteCompleted(s) == ~MapHas(sessions, s) /\ delWrites[s] = 0

\* C25: once deleteSession(sessionId) has completed, the session id re-enters
\* the registry only through a createSession call of an external caller or
\* of the bootstrap scanner: neither a reconnect timer scheduled by an
\* earlier close nor a later close of the deleted session's connection
\* re-creates it.
C25_DeletedStaysDeleted ==
    [][ \A s \in OneId :
          (DeleteCompleted(s) /\ MapHas(sessions', s))
             => \/ ApiCreateSession(s)
                \/ InitCreate(s) ]_vars

\* C26: a session created after a deleteSession of the same session id
\* starts with its registered flag false.
C26_RecreatedStartsUnregistered ==
    [][ \A s \in OneId :
          (DeleteCompleted(s) /\ ApiCreateSession(s) /\ MapHas(sessions', s))
             => ~(MapHas(registeredFlags', s) /\ registeredFlags'[s] = TRUE) ]_vars

\* ------------------------------------------------------ open and QR timer
\* A connection-open event has been delivered to the socket the registry
\* holds for s: wa.user is set from then on.
OpenDelivered(s) == MapHas(sessions, s) /\ conns[sessions[s]].user # Unset

\* C27: once a connection-open event has been delivered for a session, the QR
\* timer never logs out or deletes that session, even when it fires while the
\* open handler is suspended on the ACTIVE write.
C27_OpenedNeverTimedOut ==
    [][ \A t \in TimerIds :
          (QrTimeoutFire(t) /\ OpenDelivered(timers[t].sid))
             => timers'[t].st # "running" ]_vars

\* ------------------------------------------------------ ACTIVE and registry
\* No handler, timer body, deleteSession call or merge is in progress.
Quiescent ==
    /\ tasks = {}
    /\ \A s \in SessionIds : delWrites[s] = 0
    /\ \A t \in TimerIds : timers[t].st # "running"
    /\ NoMerge

\* C28: whenever no event handler is in progress, every session id whose
\* stored status is ACTIVE has an entry in the registry.
C28_ActiveImpliesRegistered ==
    Quiescent => \A s \in SessionIds : db[s].status = "ACTIVE" => MapHas(sessions, s)

\* ------------------------------------------------------------ merge frame
\* C29: updateDuplicateInstance for surviving session S never deletes S, and
\* re-points or renames only the chat records and files keyed by the
\* superseded session id: those of every other session, S and sessions whose
\* id has the superseded id as a prefix included, are left unchanged.
C29_MergeTouchesOnlySuperseded ==
    [][ \A s \in SessionIds :
          /\ (merge'[s].pc = "delete" /\ merge'[s] # merge[s]) => merge'[s].ins # s
          /\ \A ok \in BOOLEAN, renameOk \in BOOLEAN :
               MergeDeleted(s, ok, renameOk)
                  => \A f \in inbox.files : f # merge[s].ins => f \in inbox'.files
          /\ MergeChats(s, TRUE)
                  => \A ch \in inbox.chats : ch # merge[s].ins => ch \in inbox'.chats
      ]_vars

\* ------------------------------------------------------------- merge race
\* C30: when two live sessions of one owner hold the same phone number and
\* updateDuplicateInstance runs for both with their steps interleaved, at
\* least one of the two is in the registry while both runs are in progress,
\* and so when both have completed (no step of a run adds to the registry).
C30_MergeRaceKeepsOne ==
    \A s \in TwoIds, o \in TwoIds :
        (s # o /\ merge[s] # Idle /\ merge[o] # Idle)
            => (MapHas(sessions, s) \/ MapHas(sessions, o))

=============================================================================
